---------------------------- MODULE Spec2Model ----------------------------
(***************************************************************************)
(* A model of the colour rendering API of src/main.py: the colour          *)
(* resolver, the job orchestrator (POST /renderings, GET /renderings/id),  *)
(* the upload endpoint (POST /images), the file endpoint and the bearer    *)
(* token dependency.                                                       *)
(*                                                                         *)
(* Python strings are sequences of one-character strings, so that strip,   *)
(* lower, replace, startswith and concatenation are computed as the code   *)
(* computes them.  Line 220 of src/main.py is indented by seven spaces,    *)
(* which Python rejects; the model reads it at the level of the function   *)
(* body, where the statements around it stand.                             *)
(***************************************************************************)
EXTENDS Integers, Sequences, FiniteSets, TLC

(***************************************************************************)
(* Strings                                                                 *)
(***************************************************************************)

UpperChars ==
    <<"A", "B", "C", "D", "E", "F", "G", "H", "I", "J", "K", "L", "M",
      "N", "O", "P", "Q", "R", "S", "T", "U", "V", "W", "X", "Y", "Z">>

LowerChars ==
    <<"a", "b", "c", "d", "e", "f", "g", "h", "i", "j", "k", "l", "m",
      "n", "o", "p", "q", "r", "s", "t", "u", "v", "w", "x", "y", "z">>

\* The characters str.strip() removes (the ASCII ones the inputs use).
Whitespace == {" ", "\t", "\n"}

LowerChar(c) ==
    IF \E i \in DOMAIN UpperChars : UpperChars[i] = c
    THEN LowerChars[CHOOSE i \in DOMAIN UpperChars : UpperChars[i] = c]
    ELSE c

UpperChar(c) ==
    IF \E i \in DOMAIN LowerChars : LowerChars[i] = c
    THEN UpperChars[CHOOSE i \in DOMAIN LowerChars : LowerChars[i] = c]
    ELSE c

\* str.lower()
Lower(s) == [i \in DOMAIN s |-> LowerChar(s[i])]

\* str.upper(): used to build inputs only
Upper(s) == [i \in DOMAIN s |-> UpperChar(s[i])]

\* str.lstrip(chars)
RECURSIVE LStrip(_, _)
LStrip(s, chars) ==
    IF s # <<>> /\ Head(s) \in chars THEN LStrip(Tail(s), chars) ELSE s

\* str.rstrip(chars)
RECURSIVE RStrip(_, _)
RStrip(s, chars) ==
    IF s # <<>> /\ s[Len(s)] \in chars
    THEN RStrip(SubSeq(s, 1, Len(s) - 1), chars)
    ELSE s

\* str.strip()
Strip(s) == RStrip(LStrip(s, Whitespace), Whitespace)

\* str.replace(old, new) for single characters
Replace(s, old, new) == [i \in DOMAIN s |-> IF s[i] = old THEN new ELSE s[i]]

\* str.startswith(prefix)
StartsWith(s, prefix) ==
    /\ Len(prefix) <= Len(s)
    /\ SubSeq(s, 1, Len(prefix)) = prefix

(***************************************************************************)
(* The colour table and the resolver                                       *)
(***************************************************************************)

SW_COLOR_TABLE ==
    <<
       [id   |-> <<"s", "w", "-", "7", "0", "0", "8">>,
        code |-> <<"S", "W", " ", "7", "0", "0", "8">>,
        name |-> <<"A", "l", "a", "b", "a", "s", "t", "e", "r">>,
        hex  |-> <<"#", "E", "D", "E", "6", "D", "9">>,
        family |-> "warm white"],
       [id   |-> <<"s", "w", "-", "7", "0", "0", "4">>,
        code |-> <<"S", "W", " ", "7", "0", "0", "4">>,
        name |-> <<"S", "n", "o", "w", "b", "o", "u", "n", "d">>,
        hex  |-> <<"#", "E", "C", "E", "B", "E", "7">>,
        family |-> "cool white"],
       [id   |-> <<"s", "w", "-", "7", "0", "0", "5">>,
        code |-> <<"S", "W", " ", "7", "0", "0", "5">>,
        name |-> <<"P", "u", "r", "e", " ", "W", "h", "i", "t", "e">>,
        hex  |-> <<"#", "F", "4", "F", "4", "F", "0">>,
        family |-> "neutral white"],
       [id   |-> <<"s", "w", "-", "7", "0", "0", "6">>,
        code |-> <<"S", "W", " ", "7", "0", "0", "6">>,
        name |-> <<"E", "x", "t", "r", "a", " ", "W", "h", "i", "t", "e">>,
        hex  |-> <<"#", "F", "3", "F", "5", "F", "6">>,
        family |-> "cool white"],
       [id   |-> <<"s", "w", "-", "7", "0", "4", "2">>,
        code |-> <<"S", "W", " ", "7", "0", "4", "2">>,
        name |-> <<"S", "h", "o", "j", "i", " ", "W", "h", "i", "t", "e">>,
        hex  |-> <<"#", "E", "2", "D", "E", "D", "2">>,
        family |-> "warm white"],
       [id   |-> <<"s", "w", "-", "7", "5", "5", "1">>,
        code |-> <<"S", "W", " ", "7", "5", "5", "1">>,
        name |-> <<"G", "r", "e", "e", "k", " ", "V", "i", "l", "l", "a">>,
        hex  |-> <<"#", "E", "F", "E", "6", "D", "8">>,
        family |-> "warm white"],
       [id   |-> <<"s", "w", "-", "7", "0", "3", "6">>,
        code |-> <<"S", "W", " ", "7", "0", "3", "6">>,
        name |-> <<"A", "c", "c", "e", "s", "s", "i", "b", "l", "e", " ", "B", "e", "i", "g", "e">>,
        hex  |-> <<"#", "C", "9", "B", "8", "A", "4">>,
        family |-> "greige"],
       [id   |-> <<"s", "w", "-", "6", "1", "0", "8">>,
        code |-> <<"S", "W", " ", "6", "1", "0", "8">>,
        name |-> <<"L", "a", "t", "t", "e">>,
        hex  |-> <<"#", "D", "0", "B", "A", "9", "B">>,
        family |-> "beige"],
       [id   |-> <<"s", "w", "-", "7", "0", "3", "0">>,
        code |-> <<"S", "W", " ", "7", "0", "3", "0">>,
        name |-> <<"A", "n", "e", "w", " ", "G", "r", "a", "y">>,
        hex  |-> <<"#", "B", "7", "A", "D", "A", "1">>,
        family |-> "greige"],
       [id   |-> <<"s", "w", "-", "7", "0", "2", "9">>,
        code |-> <<"S", "W", " ", "7", "0", "2", "9">>,
        name |-> <<"A", "g", "r", "e", "e", "a", "b", "l", "e", " ", "G", "r", "a", "y">>,
        hex  |-> <<"#", "D", "1", "C", "B", "C", "1">>,
        family |-> "greige"],
       [id   |-> <<"s", "w", "-", "7", "0", "1", "5">>,
        code |-> <<"S", "W", " ", "7", "0", "1", "5">>,
        name |-> <<"R", "e", "p", "o", "s", "e", " ", "G", "r", "a", "y">>,
        hex  |-> <<"#", "C", "0", "B", "7", "A", "E">>,
        family |-> "warm gray"],
       [id   |-> <<"s", "w", "-", "7", "0", "1", "6">>,
        code |-> <<"S", "W", " ", "7", "0", "1", "6">>,
        name |-> <<"M", "i", "n", "d", "f", "u", "l", " ", "G", "r", "a", "y">>,
        hex  |-> <<"#", "B", "0", "A", "A", "A", "0">>,
        family |-> "warm gray"],
       [id   |-> <<"s", "w", "-", "7", "0", "1", "9">>,
        code |-> <<"S", "W", " ", "7", "0", "1", "9">>,
        name |-> <<"G", "a", "u", "n", "t", "l", "e", "t", " ", "G", "r", "a", "y">>,
        hex  |-> <<"#", "6", "2", "5", "A", "5", "4">>,
        family |-> "dark gray"],
       [id   |-> <<"s", "w", "-", "7", "0", "2", "4">>,
        code |-> <<"S", "W", " ", "7", "0", "2", "4">>,
        name |-> <<"D", "o", "v", "e", "t", "a", "i", "l">>,
        hex  |-> <<"#", "8", "B", "7", "D", "7", "0">>,
        family |-> "medium gray"],
       [id   |-> <<"s", "w", "-", "7", "6", "7", "4">>,
        code |-> <<"S", "W", " ", "7", "6", "7", "4">>,
        name |-> <<"P", "e", "p", "p", "e", "r", "c", "o", "r", "n">>,
        hex  |-> <<"#", "4", "A", "4", "B", "4", "D">>,
        family |-> "charcoal"],
       [id   |-> <<"s", "w", "-", "6", "2", "5", "8">>,
        code |-> <<"S", "W", " ", "6", "2", "5", "8">>,
        name |-> <<"T", "r", "i", "c", "o", "r", "n", " ", "B", "l", "a", "c", "k">>,
        hex  |-> <<"#", "2", "D", "2", "C", "2", "F">>,
        family |-> "black"],
       [id   |-> <<"s", "w", "-", "7", "0", "6", "9">>,
        code |-> <<"S", "W", " ", "7", "0", "6", "9">>,
        name |-> <<"I", "r", "o", "n", " ", "O", "r", "e">>,
        hex  |-> <<"#", "4", "3", "4", "4", "4", "7">>,
        family |-> "charcoal"],
       [id   |-> <<"s", "w", "-", "7", "0", "4", "8">>,
        code |-> <<"S", "W", " ", "7", "0", "4", "8">>,
        name |-> <<"U", "r", "b", "a", "n", "e", " ", "B", "r", "o", "n", "z", "e">>,
        hex  |-> <<"#", "6", "0", "5", "4", "4", "D">>,
        family |-> "brown-gray"],
       [id   |-> <<"s", "w", "-", "6", "2", "4", "4">>,
        code |-> <<"S", "W", " ", "6", "2", "4", "4">>,
        name |-> <<"N", "a", "v", "a", "l">>,
        hex  |-> <<"#", "3", "0", "3", "B", "4", "A">>,
        family |-> "navy blue"],
       [id   |-> <<"s", "w", "-", "6", "2", "0", "4">>,
        code |-> <<"S", "W", " ", "6", "2", "0", "4">>,
        name |-> <<"S", "e", "a", " ", "S", "a", "l", "t">>,
        hex  |-> <<"#", "C", "B", "D", "4", "C", "C">>,
        family |-> "blue-green"],
       [id   |-> <<"s", "w", "-", "6", "2", "1", "1">>,
        code |-> <<"S", "W", " ", "6", "2", "1", "1">>,
        name |-> <<"R", "a", "i", "n", "w", "a", "s", "h", "e", "d">>,
        hex  |-> <<"#", "C", "2", "D", "4", "C", "C">>,
        family |-> "blue-green"]
    >>

Entries == DOMAIN SW_COLOR_TABLE

\* The keys of the three lookup dictionaries, by position in the table.
SW_BY_ID_KEY == [i \in Entries |-> Lower(SW_COLOR_TABLE[i].id)]

SW_BY_CODE_KEY == [i \in Entries |-> Lower(SW_COLOR_TABLE[i].code)]

SW_BY_NAME_KEY == [i \in Entries |-> Lower(Strip(SW_COLOR_TABLE[i].name))]

\* A dict comprehension keeps, for a key given twice, the later entry.
LastWith(keys, k) ==
    CHOOSE i \in Entries :
        /\ keys[i] = k
        /\ \A j \in Entries : keys[j] = k => j <= i

InDict(keys, k) == \E i \in Entries : keys[i] = k

SW_BY_ID(k) == SW_COLOR_TABLE[LastWith(SW_BY_ID_KEY, k)]

SW_BY_CODE(k) == SW_COLOR_TABLE[LastWith(SW_BY_CODE_KEY, k)]

SW_BY_NAME(k) == SW_COLOR_TABLE[LastWith(SW_BY_NAME_KEY, k)]

FALLBACK_HEX == <<"#", "C", "C", "C", "C", "C", "C">>

\* A slip in line 78: the key is lower-cased but not stripped.
resolve_sw_color_no_strip(color_key) ==
    IF color_key = <<>> THEN FALLBACK_HEX
    ELSE
        LET ck == Lower(color_key)
            ck_normalized == Replace(ck, "-", " ")
        IN  IF InDict(SW_BY_ID_KEY, ck) THEN SW_BY_ID(ck).hex
            ELSE IF InDict(SW_BY_CODE_KEY, ck_normalized)
                 THEN SW_BY_CODE(ck_normalized).hex
            ELSE IF InDict(SW_BY_NAME_KEY, ck) THEN SW_BY_NAME(ck).hex
            ELSE FALLBACK_HEX

\* A slip in line 91: the name is looked up with hyphens read as spaces.
resolve_sw_color_name_normalized(color_key) ==
    IF color_key = <<>> THEN FALLBACK_HEX
    ELSE
        LET ck == Lower(Strip(color_key))
            ck_normalized == Replace(ck, "-", " ")
        IN  IF InDict(SW_BY_ID_KEY, ck) THEN SW_BY_ID(ck).hex
            ELSE IF InDict(SW_BY_CODE_KEY, ck_normalized)
                 THEN SW_BY_CODE(ck_normalized).hex
            ELSE IF InDict(SW_BY_NAME_KEY, ck_normalized)
                 THEN SW_BY_NAME(ck_normalized).hex
            ELSE FALLBACK_HEX

resolve_sw_color(color_key) ==
    IF color_key = <<>> THEN FALLBACK_HEX
    ELSE
        LET ck == Lower(Strip(color_key))
            ck_normalized == Replace(ck, "-", " ")
        IN  IF InDict(SW_BY_ID_KEY, ck) THEN SW_BY_ID(ck).hex
            ELSE IF InDict(SW_BY_CODE_KEY, ck_normalized)
                 THEN SW_BY_CODE(ck_normalized).hex
            ELSE IF InDict(SW_BY_NAME_KEY, ck) THEN SW_BY_NAME(ck).hex
            ELSE FALLBACK_HEX

(***************************************************************************)
(* Configuration and bounds                                                *)
(***************************************************************************)

\* The default of the API_KEYS environment variable: "test-key-123".
API_KEYS == { <<"t", "e", "s", "t", "-", "k", "e", "y", "-", "1", "2", "3">> }

\* An upper bound on the files POST /images stores in a run.
MaxImages == 2

\* An upper bound on the POST /renderings calls that reach the render.
MaxSubmits == 2

\* The threads of the server's pool that run the synchronous handlers.
Workers == {"w1", "w2"}

\* uuid.uuid4() values, shortened to two characters.
UuidChars == {"a", "b"}

UUIDS == { <<x, y>> : x, y \in UuidChars }

(***************************************************************************)
(* Inputs                                                                  *)
(***************************************************************************)

\* A request without an Authorization header.
NoHeader == [present |-> FALSE, value |-> <<>>]

\* A request with the header Authorization: value
Header(value) == [present |-> TRUE, value |-> value]

Bearer == <<"B", "e", "a", "r", "e", "r">>

GoodToken == <<"t", "e", "s", "t", "-", "k", "e", "y", "-", "1", "2", "3">>

BadToken == <<"n", "o", "p", "e">>

\* Authorization header values: a good token (also with a lower-case
\* scheme and blanks around the token), an unknown token, another scheme,
\* the scheme without a blank, the scheme alone, the token alone, nothing.
AuthHeaders ==
    { Bearer \o <<" ">> \o GoodToken,
      Lower(Bearer) \o <<" ", " ">> \o GoodToken \o <<" ">>,
      Bearer \o <<" ">> \o BadToken,
      <<"B", "a", "s", "i", "c", " ">> \o GoodToken,
      Bearer \o GoodToken,
      Bearer,
      GoodToken,
      <<>> }

\* Every header value above, and the request without the header.
AllAuthInputs == { Header(v) : v \in AuthHeaders } \cup {NoHeader}

\* An accepted header and a refused one.
AuthInputs ==
    { Header(Bearer \o <<" ">> \o GoodToken),
      Header(Bearer \o <<" ">> \o BadToken) }

WHITE == <<255, 255, 255>>

\* File contents: a decodable raster of one colour, or bytes that are none.
ImageData(pixel) == [kind |-> "image", pixel |-> pixel]

JunkData == [kind |-> "bytes", pixel |-> <<>>]

EmptyData == [kind |-> "empty", pixel |-> <<>>]

\* Uploaded files: the client's file name and the bytes.
UploadInputs ==
    { [filename |-> <<"p", ".", "P", "N", "G">>, data |-> ImageData(WHITE)] }

Region(r, c) == [region_id |-> r, color_id |-> c]

KEY_ID == <<"s", "w", "-", "7", "0", "1", "9">>

KEY_NAME == <<" ", "N", "a", "v", "a", "l">>

KEY_UNKNOWN == <<"r", "e", "d">>

PNG == <<"p", "n", "g">>

JPG == <<"j", "p", "g">>

Request(image_id, regions, output_format) ==
    [image_id |-> image_id, regions |-> regions, output_format |-> output_format]

\* Rendering requests.  Their image_id is empty, one character or a whole
\* identifier; the regions are none, one or two; the colour keys are an
\* id, a padded name and an unknown key.
RenderingRequests ==
    { Request(<<"a">>, <<Region("wall", KEY_ID)>>, JPG),
      Request(<<"a">>, <<Region("door", KEY_ID), Region("wall", KEY_NAME)>>, JPG),
      Request(<<"a", "a">>, <<Region("wall", KEY_UNKNOWN)>>, Upper(JPG)),
      Request(<<>>, <<>>, PNG),
      Request(<<"b">>, <<>>, JPG) }

(***************************************************************************)
(* State                                                                   *)
(***************************************************************************)

VARIABLES
    IMAGES_DIR,   \* data/images: file name -> contents
    RENDER_DIR,   \* data/renderings: file name -> contents
    JOBS,         \* the job index: job id -> RenderingJob
    call,         \* per worker: the create_rendering call it runs, if any
    uploading,    \* upload_image calls suspended at "await file.read()"
    issued,       \* the values uuid.uuid4() has returned
    submits,      \* POST /renderings calls that reached the render
    returned,     \* the jobs create_rendering has returned to its caller
    response      \* what the last step sent to a client, if anything

vars ==
    <<IMAGES_DIR, RENDER_DIR, JOBS, call, uploading, issued, submits,
      returned, response>>

Idle == [pc |-> "idle"]

\* A step that answers no client.
NoResponse == [op |-> "none", status |-> 0, arg |-> <<>>, body |-> <<>>]

Response(op, status, arg, body) ==
    [op |-> op, status |-> status, arg |-> arg, body |-> body]

\* Writing a file: creates it, or replaces its contents.
WriteFile(dir, name, data) ==
    [n \in DOMAIN dir \cup {name} |-> IF n = name THEN data ELSE dir[n]]

EmptyDir == [n \in {} |-> EmptyData]

Init ==
    /\ IMAGES_DIR = EmptyDir
    /\ RENDER_DIR = EmptyDir
    /\ JOBS = [j \in {} |-> Idle]
    /\ call = [w \in Workers |-> Idle]
    /\ uploading = {}
    /\ issued = {}
    /\ submits = 0
    /\ returned = {}
    /\ response = NoResponse

(***************************************************************************)
(* Authentication                                                          *)
(***************************************************************************)

\* str.split(" ", 1)[1] of a string that holds a space
AfterFirstSpace(s) ==
    LET i == CHOOSE k \in DOMAIN s :
                 s[k] = " " /\ \A j \in 1..(k - 1) : s[j] # " "
    IN  SubSeq(s, i + 1, Len(s))

BEARER_PREFIX == <<"b", "e", "a", "r", "e", "r", " ">>

\* The status get_api_key ends a request with, or 200 when it returns the
\* token.  A request without the header never reaches the function: the
\* parameter is declared Header(...), a required one, and the framework
\* answers 422.
get_api_key(authorization) ==
    IF ~authorization.present THEN 422
    ELSE IF ~StartsWith(Lower(authorization.value), BEARER_PREFIX) THEN 401
    ELSE IF Strip(AfterFirstSpace(authorization.value)) \notin API_KEYS THEN 401
    ELSE 200

(***************************************************************************)
(* GET /files/{folder}/{filename}                                          *)
(***************************************************************************)

\* os.path.join(BASE_DIR, folder, filename) for the two served folders
Folder(folder) == IF folder = "images" THEN IMAGES_DIR ELSE RENDER_DIR

get_file(folder, filename) ==
    /\ response' =
         IF folder \notin {"images", "renderings"}
         THEN Response("file", 404, <<>>, <<>>)
         ELSE IF filename \notin DOMAIN Folder(folder)
         THEN Response("file", 404, <<>>, <<>>)
         ELSE Response("file", 200, <<>>, <<>>)
    /\ UNCHANGED <<IMAGES_DIR, RENDER_DIR, JOBS, call, uploading, issued,
                   submits, returned>>

(***************************************************************************)
(* POST /images                                                            *)
(***************************************************************************)

\* os.path.splitext(p)[1]: from the last dot of the last path component,
\* unless only dots precede it there.
SplitExt(p) ==
    LET seps == {i \in DOMAIN p : p[i] = "/"}
        dots == {i \in DOMAIN p : p[i] = "."}
        Max(S) == CHOOSE m \in S : \A x \in S : x <= m
        sepIndex == IF seps = {} THEN 0 ELSE Max(seps)
        dotIndex == IF dots = {} THEN 0 ELSE Max(dots)
    IN  IF /\ dotIndex > sepIndex
           /\ \E i \in (sepIndex + 1)..(dotIndex - 1) : p[i] # "."
        THEN SubSeq(p, dotIndex, Len(p))
        ELSE <<>>

DEFAULT_EXT == <<".", "j", "p", "g">>

\* A slip in line 168: the extension is kept in the case it came in.
UploadExt_case_kept(filename) ==
    IF SplitExt(filename) = <<>> THEN DEFAULT_EXT
    ELSE SplitExt(filename)

\* Line 168
UploadExt(filename) ==
    IF Lower(SplitExt(filename)) = <<>> THEN DEFAULT_EXT
    ELSE Lower(SplitExt(filename))

FILES_IMAGES == <<"/", "f", "i", "l", "e", "s", "/", "i", "m", "a", "g", "e", "s", "/">>

FILES_RENDERINGS ==
    <<"/", "f", "i", "l", "e", "s", "/", "r", "e", "n", "d", "e", "r", "i", "n", "g", "s", "/">>

\* A generator that may return a value again.
Uuid4_reused(u) == u \in UUIDS

\* uuid.uuid4(): a value never returned before
Uuid4(u) == u \in UUIDS \ issued

\* Lines 163-173: authentication, the name, and open(filepath, "wb"), which
\* creates the file empty; the handler then awaits the upload's bytes.
upload_image_open(file, authorization) ==
    IF get_api_key(authorization) # 200
    THEN /\ response' = Response("upload", get_api_key(authorization), authorization, <<>>)
         /\ UNCHANGED <<IMAGES_DIR, RENDER_DIR, JOBS, call, uploading, issued,
                        submits, returned>>
    ELSE /\ Cardinality(DOMAIN IMAGES_DIR) < MaxImages
         /\ \E image_id \in UUIDS :
              /\ Uuid4(image_id)
              /\ LET filename == image_id \o UploadExt(file.filename)
                 IN  /\ IMAGES_DIR' = WriteFile(IMAGES_DIR, filename, EmptyData)
                     /\ uploading' = uploading \cup
                          {[id |-> image_id, filename |-> filename,
                            data |-> file.data, original |-> file.filename]}
              /\ issued' = issued \cup {image_id}
         /\ response' = NoResponse
         /\ UNCHANGED <<RENDER_DIR, JOBS, call, submits, returned>>

\* Lines 174-181: the bytes are written and the identifier is returned.
upload_image_write(u) ==
    /\ u \in uploading
    /\ IMAGES_DIR' = WriteFile(IMAGES_DIR, u.filename, u.data)
    /\ uploading' = uploading \ {u}
    /\ response' = Response("upload", 200, u.original,
                            [id |-> u.id, file_url |-> FILES_IMAGES \o u.filename])
    /\ UNCHANGED <<RENDER_DIR, JOBS, call, issued, submits, returned>>

(***************************************************************************)
(* The tint                                                                *)
(***************************************************************************)

HexDigits ==
    <<"0", "1", "2", "3", "4", "5", "6", "7", "8", "9",
      "a", "b", "c", "d", "e", "f">>

IsHexDigit(c) == \E i \in DOMAIN HexDigits : HexDigits[i] = LowerChar(c)

HexValue(c) == (CHOOSE i \in DOMAIN HexDigits : HexDigits[i] = LowerChar(c)) - 1

\* int(s, 16) for the slices hex_to_rgb takes (at most two characters):
\* blanks around the number and one sign before it are accepted.
IntBase16(s) ==
    LET t == Strip(s)
        signed == t # <<>> /\ Head(t) \in {"+", "-"}
        digits == IF signed THEN Tail(t) ELSE t
        RECURSIVE Value(_)
        Value(d) == IF d = <<>> THEN 0
                    ELSE 16 * Value(SubSeq(d, 1, Len(d) - 1)) + HexValue(d[Len(d)])
    IN  IF digits = <<>> \/ \E i \in DOMAIN digits : ~IsHexDigit(digits[i])
        THEN [ok |-> FALSE, value |-> 0]
        ELSE [ok |-> TRUE,
              value |-> IF signed /\ Head(t) = "-" THEN 0 - Value(digits)
                        ELSE Value(digits)]

\* hex_str[i:j], which cuts the bounds to the string
Slice(s, i, j) ==
    SubSeq(s, i + 1, IF j < Len(s) THEN j ELSE Len(s))

hex_to_rgb(hex_str) ==
    LET stripped == LStrip(hex_str, {"#"})
        h == IF Len(stripped) = 3
             THEN <<stripped[1], stripped[1], stripped[2], stripped[2],
                    stripped[3], stripped[3]>>
             ELSE stripped
        r == IntBase16(Slice(h, 0, 2))
        g == IntBase16(Slice(h, 2, 4))
        b == IntBase16(Slice(h, 4, 6))
    IN  [ok |-> r.ok /\ g.ok /\ b.ok, rgb |-> <<r.value, g.value, b.value>>]

\* Image.save picks the codec from the extension of the path.
Codec(ext) == IF ext = <<".", "j", "p", "g">> THEN "JPEG" ELSE "PNG"

\* The blend weight of line 199, in hundredths.
ALPHA_PERCENT == 35

\* Image.blend on one 8-bit channel: (UINT8)(c + alpha * (t - c)), the
\* fraction cut off.  The value is never negative, so the cut is the floor;
\* in single precision, for all 8-bit c and t, the result is the floor of
\* the exact (100 * c + 35 * (t - c)) / 100.
BlendChannel(c, t) == (100 * c + ALPHA_PERCENT * (t - c)) \div 100

\* Image.blend(base, overlay, alpha=0.35) on a pixel
Blend(base_pixel, overlay_color) ==
    [i \in DOMAIN base_pixel |-> BlendChannel(base_pixel[i], overlay_color[i])]

\* The file simple_tint writes: the blend, at alpha 0.35, of the base image
\* with a raster of the overlay colour, encoded by the codec of the path.
Tinted(base, overlay_color, ext) ==
    [kind |-> "image",
     pixel |-> Blend(base.pixel, overlay_color),
     codec |-> Codec(ext)]

\* Whether simple_tint raises: Image.open on bytes that are no image, or
\* hex_to_rgb on a string it cannot parse.
TintFails(data, hex_color) ==
    \/ data.kind # "image"
    \/ ~hex_to_rgb(hex_color).ok

(***************************************************************************)
(* POST /renderings                                                        *)
(***************************************************************************)

\* A slip in line 225: the comparison without .lower().
OutputExt_case_sensitive(output_format) ==
    IF output_format = JPG THEN <<".", "j", "p", "g">>
    ELSE <<".", "p", "n", "g">>

\* Line 225
OutputExt(output_format) ==
    IF Lower(output_format) = JPG THEN <<".", "j", "p", "g">>
    ELSE <<".", "p", "n", "g">>

\* Line 210: the stored names that start with image_id
PossibleFiles(image_id) == {f \in DOMAIN IMAGES_DIR : StartsWith(f, image_id)}

\* A slip in lines 226-232: the URL is built from the job id alone.
RenderingJob_url_without_ext(job_id, output_filename, req) ==
    [id |-> job_id,
     status |-> "completed",
     output_url |-> FILES_RENDERINGS \o job_id,
     config |-> req]

\* Lines 232-239
RenderingJob(job_id, output_filename, req) ==
    [id |-> job_id,
     status |-> "completed",
     output_url |-> FILES_RENDERINGS \o output_filename,
     config |-> req]

\* A slip in line 240: the index is rebuilt around the new job.
StoreJob_reset(job) == [j \in {job.id} |-> job]

\* Line 240
StoreJob(job) ==
    [j \in DOMAIN JOBS \cup {job.id} |-> IF j = job.id THEN job ELSE JOBS[j]]

\* Lines 216-217 left out: regions[0] of an empty list raises IndexError,
\* which the framework answers with 500.
LookupStatus_regions_unchecked(req) ==
    IF PossibleFiles(req.image_id) = {} THEN 404
    ELSE IF req.regions = <<>> THEN 500
    ELSE 200

\* A slip in lines 210-217: the regions are checked before the image.
LookupStatus_regions_first(req) ==
    IF req.regions = <<>> THEN 400
    ELSE IF PossibleFiles(req.image_id) = {} THEN 404
    ELSE 200

\* Lines 210-217: 404 when no stored name starts with image_id, then 400
\* when there is no region; 200 stands for going on.
LookupStatus(req) ==
    IF PossibleFiles(req.image_id) = {} THEN 404
    ELSE IF req.regions = <<>> THEN 400
    ELSE 200

\* A slip in line 220: the colour of the last region is used.
color_key_last_region(req) == req.regions[Len(req.regions)].color_id

\* Line 220: the colour of the first region
color_key(req) == req.regions[1].color_id

\* Lines 204-227, up to the call of simple_tint: the get_api_key dependency,
\* the lookup, then the colour of the first region, the job id and the
\* output name.  possible_files[0] is the first name in the order
\* os.listdir gives, which is any of the matches.
create_rendering_lookup(w, req, authorization) ==
    /\ call[w].pc = "idle"
    /\ IF get_api_key(authorization) # 200
       THEN /\ response' = Response("submit", get_api_key(authorization), authorization, <<>>)
            /\ UNCHANGED <<call, submits, issued>>
       ELSE IF LookupStatus(req) # 200
       THEN /\ response' = Response("submit", LookupStatus(req), req, <<>>)
            /\ UNCHANGED <<call, submits, issued>>
       ELSE \E input_filename \in PossibleFiles(req.image_id), job_id \in UUIDS :
            /\ submits < MaxSubmits
            /\ submits' = submits + 1
            /\ Uuid4(job_id)
            /\ issued' = issued \cup {job_id}
            /\ call' = [call EXCEPT ![w] =
                  [pc |-> "tint",
                   req |-> req,
                   input_filename |-> input_filename,
                   hex_color |-> resolve_sw_color(color_key(req)),
                   job_id |-> job_id,
                   output_filename |-> job_id \o OutputExt(req.output_format)]]
            /\ response' = NoResponse
    /\ UNCHANGED <<IMAGES_DIR, RENDER_DIR, JOBS, uploading, returned>>

\* A slip in line 230: what simple_tint raises is swallowed, and the
\* handler goes on to record the job.
create_rendering_tint_swallow(w) ==
    /\ call[w].pc = "tint"
    /\ LET c == call[w]
           data == IMAGES_DIR[c.input_filename]
       IN  IF TintFails(data, c.hex_color)
           THEN UNCHANGED RENDER_DIR
           ELSE RENDER_DIR' =
                    WriteFile(RENDER_DIR, c.output_filename,
                              Tinted(data, hex_to_rgb(c.hex_color).rgb,
                                     OutputExt(c.req.output_format)))
    /\ call' = [call EXCEPT ![w].pc = "record"]
    /\ response' = NoResponse
    /\ UNCHANGED <<IMAGES_DIR, JOBS, uploading, issued, submits, returned>>

\* A slip in lines 200 and 230: the blend is computed and never saved.
create_rendering_tint_unsaved(w) ==
    /\ call[w].pc = "tint"
    /\ LET c == call[w]
           data == IMAGES_DIR[c.input_filename]
       IN  IF TintFails(data, c.hex_color)
           THEN /\ response' = Response("submit", 500, c.req, <<>>)
                /\ call' = [call EXCEPT ![w] = Idle]
           ELSE /\ call' = [call EXCEPT ![w].pc = "record"]
                /\ response' = NoResponse
    /\ UNCHANGED <<IMAGES_DIR, RENDER_DIR, JOBS, uploading, issued, submits,
                   returned>>

\* A slip in lines 195-200: the output file is opened before the source
\* is decoded, so a failing tint leaves an empty file behind.
create_rendering_tint_partial(w) ==
    /\ call[w].pc = "tint"
    /\ LET c == call[w]
           data == IMAGES_DIR[c.input_filename]
       IN  IF TintFails(data, c.hex_color)
           THEN /\ response' = Response("submit", 500, c.req, <<>>)
                /\ call' = [call EXCEPT ![w] = Idle]
                /\ RENDER_DIR' = WriteFile(RENDER_DIR, c.output_filename, EmptyData)
           ELSE /\ RENDER_DIR' =
                     WriteFile(RENDER_DIR, c.output_filename,
                               Tinted(data, hex_to_rgb(c.hex_color).rgb,
                                      OutputExt(c.req.output_format)))
                /\ call' = [call EXCEPT ![w].pc = "record"]
                /\ response' = NoResponse
    /\ UNCHANGED <<IMAGES_DIR, JOBS, uploading, issued, submits, returned>>

\* Line 230: simple_tint reads the source and writes the artifact; what it
\* raises ends the request with 500.
create_rendering_tint(w) ==
    /\ call[w].pc = "tint"
    /\ LET c == call[w]
           data == IMAGES_DIR[c.input_filename]
       IN  IF TintFails(data, c.hex_color)
           THEN /\ response' = Response("submit", 500, c.req, <<>>)
                /\ call' = [call EXCEPT ![w] = Idle]
                /\ UNCHANGED RENDER_DIR
           ELSE /\ RENDER_DIR' =
                     WriteFile(RENDER_DIR, c.output_filename,
                               Tinted(data, hex_to_rgb(c.hex_color).rgb,
                                      OutputExt(c.req.output_format)))
                /\ call' = [call EXCEPT ![w].pc = "record"]
                /\ response' = NoResponse
    /\ UNCHANGED <<IMAGES_DIR, JOBS, uploading, issued, submits, returned>>

\* Lines 232-240: the record is built whole and put into JOBS.
create_rendering_record(w) ==
    /\ call[w].pc = "record"
    /\ LET job == RenderingJob(call[w].job_id, call[w].output_filename, call[w].req)
       IN  /\ JOBS' = StoreJob(job)
           /\ call' = [call EXCEPT ![w] =
                         [pc |-> "return",
                          req |-> call[w].req,
                          job_id |-> call[w].job_id,
                          output_filename |-> call[w].output_filename,
                          job |-> job]]
    /\ response' = NoResponse
    /\ UNCHANGED <<IMAGES_DIR, RENDER_DIR, uploading, issued, submits, returned>>

\* Line 243
create_rendering_return(w) ==
    /\ call[w].pc = "return"
    /\ response' = Response("submit", 200, call[w].job.config, call[w].job)
    /\ returned' = returned \cup {call[w].job}
    /\ call' = [call EXCEPT ![w] = Idle]
    /\ UNCHANGED <<IMAGES_DIR, RENDER_DIR, JOBS, uploading, issued, submits>>

(***************************************************************************)
(* GET /renderings/{job_id}                                                *)
(***************************************************************************)

\* A slip in line 248: JOBS.pop(job_id, None) in place of JOBS.get(job_id).
get_rendering_pop(job_id, authorization) ==
    /\ response' =
         IF get_api_key(authorization) # 200
         THEN Response("get", get_api_key(authorization), authorization, <<>>)
         ELSE IF job_id \notin DOMAIN JOBS
         THEN Response("get", 404, job_id, <<>>)
         ELSE Response("get", 200, job_id, JOBS[job_id])
    /\ JOBS' = IF get_api_key(authorization) = 200
               THEN [j \in DOMAIN JOBS \ {job_id} |-> JOBS[j]]
               ELSE JOBS
    /\ UNCHANGED <<IMAGES_DIR, RENDER_DIR, call, uploading, issued,
                   submits, returned>>

JobIdInputs == UUIDS

get_rendering(job_id, authorization) ==
    /\ response' =
         IF get_api_key(authorization) # 200
         THEN Response("get", get_api_key(authorization), authorization, <<>>)
         ELSE IF job_id \notin DOMAIN JOBS
         THEN Response("get", 404, job_id, <<>>)
         ELSE Response("get", 200, job_id, JOBS[job_id])
    /\ UNCHANGED <<IMAGES_DIR, RENDER_DIR, JOBS, call, uploading, issued,
                   submits, returned>>

(***************************************************************************)
(* The server                                                              *)
(***************************************************************************)

\* Paths asked of GET /files: every stored name under each served folder
\* (a rendering's name is missing from images, and the reverse), and a
\* folder that is not served.
FileInputs ==
    ({"images", "renderings"} \X (DOMAIN IMAGES_DIR \cup DOMAIN RENDER_DIR))
        \cup {<<"jobs", <<"x">> >>}

\* The steps of the server, for requests drawn from the given inputs.
Step(auths, requests) ==
    \/ \E file \in UploadInputs, a \in auths : upload_image_open(file, a)
    \/ \E u \in uploading : upload_image_write(u)
    \/ \E w \in Workers, req \in requests, a \in auths :
         create_rendering_lookup(w, req, a)
    \/ \E w \in Workers : create_rendering_tint(w)
    \/ \E w \in Workers : create_rendering_record(w)
    \/ \E w \in Workers : create_rendering_return(w)
    \/ \E job_id \in JobIdInputs, a \in auths : get_rendering(job_id, a)
    \/ \E f \in FileInputs : get_file(f[1], f[2])

Next == Step(AuthInputs, RenderingRequests)

Spec == Init /\ [][Next]_vars

(***************************************************************************)
(* Properties of the job orchestrator                                      *)
(***************************************************************************)

\* The response answers a request that passed get_api_key.
Authorized(r) == r.status \notin {401, 422}

\* The file a URL of the form /files/renderings/<name> names is stored.
ArtifactStored(url) ==
    /\ StartsWith(url, FILES_RENDERINGS)
    /\ SubSeq(url, Len(FILES_RENDERINGS) + 1, Len(url)) \in DOMAIN RENDER_DIR

\* The worker runs a create_rendering call that has a job id.
InFlight(w) == call[w].pc \in {"tint", "record", "return"}

\* C1: a get of the id of a job that a submit has returned answers 200 with
\* that very record, whose status is "completed", whose output_url is not
\* empty and names a file stored in the rendering directory.
C1_GetAfterSubmit ==
    (response.op = "get" /\ Authorized(response)) =>
        \A j \in returned :
            j.id = response.arg =>
                /\ response.status = 200
                /\ response.body = j
                /\ response.body.status = "completed"
                /\ response.body.output_url # <<>>
                /\ ArtifactStored(response.body.output_url)

\* A get has answered with a job that a submit returned before.
C1_Witness ==
    /\ response.op = "get"
    /\ response.status = 200
    /\ response.body \in returned

\* C2 as stated: an authorized submit with no regions is answered 400,
\* whether or not a stored image matches.
C2_Original_EmptyRegionsAlways400 ==
    (/\ response.op = "submit"
     /\ Authorized(response)
     /\ response.arg.regions = <<>>) => response.status = 400

\* C2 as amended: an authorized submit with no regions is answered 400
\* when some stored image name starts with image_id and 404 when none
\* does, and in both cases the job index is left as it was.
C2_EmptyRegions ==
    /\ []((/\ response.op = "submit"
           /\ Authorized(response)
           /\ response.arg.regions = <<>>)
          => response.status =
               IF PossibleFiles(response.arg.image_id) = {} THEN 404 ELSE 400)
    /\ [][(response'.op = "submit" /\ response'.status \in {400, 404})
          => JOBS' = JOBS]_vars

\* A submit with no regions was answered 400: a stored image matched.
C2_Witness ==
    /\ response.op = "submit"
    /\ response.status = 400
    /\ response.arg.regions = <<>>
    /\ PossibleFiles(response.arg.image_id) # {}

\* C3: an authorized submit whose image_id no stored name starts with is
\* answered 404, whatever its regions and output_format, and leaves the
\* job index as it was.
C3_NoImage404 ==
    /\ []((/\ response.op = "submit"
           /\ Authorized(response)
           /\ PossibleFiles(response.arg.image_id) = {})
          => response.status = 404)
    /\ [][(response'.op = "submit" /\ response'.status = 404)
          => JOBS' = JOBS]_vars

\* A submit with no regions and no matching image was answered 404, with
\* an image stored under another name.
C3_Witness ==
    /\ response.op = "submit"
    /\ response.status = 404
    /\ response.arg.regions = <<>>
    /\ DOMAIN IMAGES_DIR # {}

\* C4 as stated: a get of an id that no submit has returned is answered
\* 404.
C4_Original_UnreturnedJob404 ==
    (/\ response.op = "get"
     /\ Authorized(response)
     /\ \A j \in returned : j.id # response.arg) => response.status = 404

\* C4 as amended: a get of an id under which the index holds no job is
\* answered 404, and a get changes neither the index nor the directories.
C4_UnknownJob404 ==
    /\ []((/\ response.op = "get"
           /\ Authorized(response)
           /\ response.arg \notin DOMAIN JOBS) => response.status = 404)
    /\ [][response'.op = "get"
          => UNCHANGED <<JOBS, IMAGES_DIR, RENDER_DIR>>]_vars

\* A get was answered 404 while the index held a job under another id.
C4_Witness ==
    /\ response.op = "get"
    /\ response.status = 404
    /\ DOMAIN JOBS # {}

\* C5: calls in flight hold different job ids and different output names;
\* a call that has not written finds no file under its output name, and
\* one that has not recorded finds no job under its id; no job id comes
\* back from two submits; no two jobs share an output_url.
C5_DistinctIdentifiers ==
    /\ \A w1, w2 \in Workers :
         (w1 # w2 /\ InFlight(w1) /\ InFlight(w2)) =>
             /\ call[w1].job_id # call[w2].job_id
             /\ call[w1].output_filename # call[w2].output_filename
    /\ \A w \in Workers :
         call[w].pc = "tint" => call[w].output_filename \notin DOMAIN RENDER_DIR
    /\ \A w \in Workers :
         call[w].pc \in {"tint", "record"} =>
             /\ call[w].job_id \notin DOMAIN JOBS
             /\ \A j \in returned : j.id # call[w].job_id
    /\ \A w \in Workers :
         call[w].pc = "return" => \A j \in returned : j.id # call[w].job_id
    /\ \A i, j \in DOMAIN JOBS :
         i # j => JOBS[i].output_url # JOBS[j].output_url
    /\ \A j1, j2 \in returned :
         j1 # j2 => (j1.id # j2.id /\ j1.output_url # j2.output_url)

\* Two submissions are in flight together, both with their file written.
C5_Witness ==
    \A w \in Workers : call[w].pc = "record"

\* C6: every record in the index is whole (status "completed", an
\* output_url that names a stored file); the index changes only in the
\* last step before the return, by the insertion of the record of a call
\* whose file is written; a call that ends in simple_tint is answered 500,
\* and a submit answered with an error leaves the index as it was.
C6_RecordedLast ==
    /\ [](\A id \in DOMAIN JOBS :
            /\ JOBS[id].status = "completed"
            /\ JOBS[id].output_url # <<>>
            /\ ArtifactStored(JOBS[id].output_url))
    /\ [][JOBS' # JOBS =>
            \E w \in Workers :
                /\ call[w].pc = "record"
                /\ call'[w].pc = "return"
                /\ call[w].output_filename \in DOMAIN RENDER_DIR
                /\ DOMAIN JOBS' = DOMAIN JOBS \cup {call[w].job_id}]_vars
    /\ [][\A w \in Workers :
            (call[w].pc = "tint" /\ call'[w].pc = "idle") =>
                (response'.op = "submit" /\ response'.status = 500)]_vars
    /\ [][(response'.op = "submit" /\ response'.status # 200)
          => JOBS' = JOBS]_vars

\* A submit failed in simple_tint and was answered 500.
C6_Witness ==
    /\ response.op = "submit"
    /\ response.status = 500

\* C7: a step keeps every entry of the index as it is; every entry is
\* filed under its own id with status "completed"; the entry a call
\* inserts has the call's request as its config.
C7_InsertOnly ==
    /\ [][\A id \in DOMAIN JOBS :
            id \in DOMAIN JOBS' /\ JOBS'[id] = JOBS[id]]_vars
    /\ [](\A id \in DOMAIN JOBS :
            JOBS[id].id = id /\ JOBS[id].status = "completed")
    /\ [][\A w \in Workers :
            (call[w].pc = "record" /\ call'[w].pc = "return") =>
                JOBS'[call[w].job_id].config = call[w].req]_vars

\* The index holds two jobs and a get has just answered with one of them.
C7_Witness ==
    /\ Cardinality(DOMAIN JOBS) = 2
    /\ response.op = "get"
    /\ response.status = 200

(***************************************************************************)
(* The colour resolver, run by one submission for each of many keys        *)
(***************************************************************************)

GoodHeader == Header(Bearer \o <<" ">> \o GoodToken)

\* Blanks put before and after a key.
Pads == { <<>>, <<" ">>, <<"\t", "\n">> }

\* Upper case at the odd positions, lower case at the even ones.
AltCase(s) ==
    [i \in DOMAIN s |-> IF i % 2 = 1 THEN UpperChar(s[i]) ELSE LowerChar(s[i])]

CaseVariants(s) == {s, Upper(s), Lower(s), AltCase(s)}

\* The ways of writing an entry: its id, its code, its code with a hyphen
\* for the space, and its name.
Bases(e) ==
    { SW_COLOR_TABLE[e].id,
      SW_COLOR_TABLE[e].code,
      Replace(SW_COLOR_TABLE[e].code, " ", "-"),
      SW_COLOR_TABLE[e].name }

\* Each of them in four letter cases, with blanks before and after.
SurfaceForms ==
    [e \in Entries |->
        { lead \o c \o trail :
            lead \in Pads, trail \in Pads,
            c \in UNION { CaseVariants(b) : b \in Bases(e) } }]

DropLast(s) == SubSeq(s, 1, Len(s) - 1)

\* Other keys: empty and blank ones, and near misses of the entries.
OtherKeys ==
    { <<>>, <<" ">>, <<"\t", "\n">>, KEY_UNKNOWN, FALLBACK_HEX,
      <<"s", "w", "7", "0", "0", "8">>,
      <<"s", "w", " ", " ", "7", "0", "0", "8">>,
      <<"s", "w", "-", " ", "7", "0", "0", "8">>,
      <<"s", "w", "\t", "7", "0", "0", "8">> }
    \cup { Replace(SW_COLOR_TABLE[e].name, " ", "-") : e \in Entries }
    \cup { Replace(SW_COLOR_TABLE[e].id, "-", "_") : e \in Entries }
    \cup { DropLast(SW_COLOR_TABLE[e].id) : e \in Entries }
    \cup { DropLast(SW_COLOR_TABLE[e].name) : e \in Entries }
    \cup { SW_COLOR_TABLE[e].hex : e \in Entries }
    \cup { <<"\n">> \o SW_COLOR_TABLE[e].name \o <<"s">> : e \in Entries }

ResolveKeys == UNION { SurfaceForms[e] : e \in Entries } \cup OtherKeys

ResolveRequest(key) == Request(<<"a", "a">>, <<Region("wall", key)>>, JPG)

\* One white image is stored, as aa.png.
InitResolve ==
    /\ IMAGES_DIR = WriteFile(EmptyDir, <<"a", "a", ".", "p", "n", "g">>,
                              ImageData(WHITE))
    /\ RENDER_DIR = EmptyDir
    /\ JOBS = [j \in {} |-> Idle]
    /\ call = [w \in Workers |-> Idle]
    /\ uploading = {}
    /\ issued = { <<"a", "a">> }
    /\ submits = 0
    /\ returned = {}
    /\ response = NoResponse

\* One submission of that image, with any of the keys.
NextResolve ==
    \/ \E w \in Workers, key \in ResolveKeys :
         /\ submits = 0
         /\ create_rendering_lookup(w, ResolveRequest(key), GoodHeader)
    \/ \E w \in Workers : create_rendering_tint(w)
    \/ \E w \in Workers : create_rendering_record(w)
    \/ \E w \in Workers : create_rendering_return(w)

SpecResolve == InitResolve /\ [][NextResolve]_vars

\* The key and the colour of a call that has resolved its colour.
Resolved(w) == call[w].pc \in {"tint", "record"}

ColorKey(w) == call[w].req.regions[1].color_id

\* C8: a key that is a way of writing an entry (id, code, code with a
\* hyphen, name; in any of the letter cases; with blanks around it)
\* resolves to the hex of that entry.
C8_SurfaceFormsResolve ==
    \A w \in Workers :
        Resolved(w) =>
            \A e \in Entries :
                ColorKey(w) \in SurfaceForms[e] =>
                    call[w].hex_color = SW_COLOR_TABLE[e].hex

\* The name of the first entry, in capitals and with blanks around it,
\* has resolved to #EDE6D9.
C8_Witness ==
    \E w \in Workers :
        /\ Resolved(w)
        /\ ColorKey(w) =
             <<" ", "A", "L", "A", "B", "A", "S", "T", "E", "R", "\t", "\n">>
        /\ call[w].hex_color = <<"#", "E", "D", "E", "6", "D", "9">>

\* The key, trimmed and lower-cased, is an id, a code (hyphens read as
\* spaces) or a name of the catalog.
KeyMatches(key) ==
    LET k == Lower(Strip(key))
    IN  \E e \in Entries :
            \/ k = Lower(SW_COLOR_TABLE[e].id)
            \/ Replace(k, "-", " ") = Lower(SW_COLOR_TABLE[e].code)
            \/ k = Lower(SW_COLOR_TABLE[e].name)

\* C9: every key resolves to a hex of the catalog or to #CCCCCC, to
\* #CCCCCC exactly when it matches no entry, and no entry has that hex.
C9_FallbackIffNoMatch ==
    /\ \A e \in Entries : SW_COLOR_TABLE[e].hex # FALLBACK_HEX
    /\ \A w \in Workers :
         Resolved(w) =>
             /\ call[w].hex_color \in
                  {FALLBACK_HEX} \cup { SW_COLOR_TABLE[e].hex : e \in Entries }
             /\ call[w].hex_color = FALLBACK_HEX <=> ~KeyMatches(ColorKey(w))

\* A key of blanks only has resolved to #CCCCCC.
C9_Witness ==
    \E w \in Workers :
        /\ Resolved(w)
        /\ ColorKey(w) = <<"\t", "\n">>
        /\ call[w].hex_color = FALLBACK_HEX

(***************************************************************************)
(* Authentication, for every header value                                  *)
(***************************************************************************)

AuthRequests ==
    { Request(<<"a">>, <<Region("wall", KEY_ID)>>, JPG),
      Request(<<>>, <<>>, PNG) }

NextAuth == Step(AllAuthInputs, AuthRequests)

SpecAuth == Init /\ [][NextAuth]_vars

\* The header is missing, does not start with the scheme and a blank, or
\* carries a token that is not in the allow-list.
Refused(a) ==
    \/ ~a.present
    \/ ~StartsWith(Lower(a.value), BEARER_PREFIX)
    \/ Strip(SubSeq(a.value, Len(BEARER_PREFIX) + 1, Len(a.value))) \notin API_KEYS

\* C10: an upload, a submit or a get with a refused header is answered 401
\* and changes neither the index nor the directories.
C10_Unauthorized401 ==
    [][\A a \in AllAuthInputs :
         Refused(a) =>
            /\ (\E file \in UploadInputs : upload_image_open(file, a))
                 => (response'.status = 401
                     /\ UNCHANGED <<JOBS, IMAGES_DIR, RENDER_DIR>>)
            /\ (\E w \in Workers, req \in AuthRequests :
                    create_rendering_lookup(w, req, a))
                 => (response'.status = 401
                     /\ UNCHANGED <<JOBS, IMAGES_DIR, RENDER_DIR>>)
            /\ (\E job_id \in JobIdInputs : get_rendering(job_id, a))
                 => (response'.status = 401
                     /\ UNCHANGED <<JOBS, IMAGES_DIR, RENDER_DIR>>)]_vars

(***************************************************************************)
(* The image a job refers to                                               *)
(***************************************************************************)

\* The identifiers of the stored images: upload_image names a file by
\* its identifier followed by the extension.
StoredImageIds ==
    { SubSeq(n, 1, Len(n) - Len(SplitExt(n))) : n \in DOMAIN IMAGES_DIR }

\* C11: every job of the index has a config.image_id that is the
\* identifier of a stored image; a submit whose image_id is empty, or
\* only the beginning of an identifier, records no job.
C11_JobsReferenceUploads ==
    \A j \in DOMAIN JOBS : JOBS[j].config.image_id \in StoredImageIds

(***************************************************************************)
(* The output format, for submissions of one stored image                  *)
(***************************************************************************)

\* output_format values: the two documented ones, other letter cases of
\* them, a blank before one, other formats, and the empty string.
OutputFormats ==
    { JPG, PNG, Upper(JPG), Upper(PNG), <<"J", "p", "g">>, <<" ", "j", "p", "g">>,
      <<"j", "p", "e", "g">>, <<"g", "i", "f">>, <<>> }

FormatRequest(output_format) ==
    Request(<<"a", "a">>, <<Region("wall", KEY_ID)>>, output_format)

\* Submissions of the stored image aa.png, with any of the formats.
NextFormat ==
    \/ \E w \in Workers, f \in OutputFormats :
         create_rendering_lookup(w, FormatRequest(f), GoodHeader)
    \/ \E w \in Workers : create_rendering_tint(w)
    \/ \E w \in Workers : create_rendering_record(w)
    \/ \E w \in Workers : create_rendering_return(w)

SpecFormat == InitResolve /\ [][NextFormat]_vars

DOT_JPG == <<".", "j", "p", "g">>

DOT_PNG == <<".", "p", "n", "g">>

\* A submit has just returned its job.
SubmitReturned == response.op = "submit" /\ response.status = 200

\* The job a submit returned names the artifact <job id><ext>, which is
\* stored and encoded by the codec of ext.
ArtifactNamed(ext) ==
    /\ response.body.output_url = FILES_RENDERINGS \o response.body.id \o ext
    /\ (response.body.id \o ext) \in DOMAIN RENDER_DIR
    /\ RENDER_DIR[response.body.id \o ext].codec =
         (IF ext = DOT_JPG THEN "JPEG" ELSE "PNG")

\* C12 as stated: ext is ".jpg" when output_format is "jpg" and ".png"
\* for every other value.
C12_Original_JpgExactly ==
    SubmitReturned =>
        ArtifactNamed(IF response.arg.output_format = JPG THEN DOT_JPG ELSE DOT_PNG)

\* C12 as amended: for every submit that returned a job, the artifact is
\* stored as <job id><ext> and output_url is /files/renderings/<job id><ext>,
\* where ext is ".jpg" when output_format in lower case is "jpg" and
\* ".png" for every other value.
C12_ArtifactNameAndExt ==
    SubmitReturned =>
        ArtifactNamed(IF Lower(response.arg.output_format) = JPG
                      THEN DOT_JPG ELSE DOT_PNG)

\* A submit with output_format "JPG" returned a job stored as .jpg while
\* one with "gif" has its artifact stored as .png.
C12_Witness ==
    /\ SubmitReturned
    /\ response.arg.output_format = Upper(JPG)
    /\ response.body.output_url =
         FILES_RENDERINGS \o response.body.id \o DOT_JPG
    /\ \E n \in DOMAIN RENDER_DIR :
         /\ SubSeq(n, 3, Len(n)) = DOT_PNG
         /\ \E j \in DOMAIN JOBS :
              /\ JOBS[j].config.output_format = <<"g", "i", "f">>
              /\ JOBS[j].output_url = FILES_RENDERINGS \o n

\* The values the request model documents for output_format.
SupportedFormats == {JPG, PNG}

\* C13: a submit whose output_format is neither "jpg" nor "png" is
\* refused as an invalid request (400 or 422) and records no job.
C13_UnsupportedFormatRejected ==
    /\ \A j \in DOMAIN JOBS : JOBS[j].config.output_format \in SupportedFormats
    /\ (response.op = "submit"
        /\ response.arg.output_format \notin SupportedFormats)
         => response.status \in {400, 422}

(***************************************************************************)
(* The regions of a request, for submissions against an unchanging store   *)
(***************************************************************************)

BLACK == <<0, 0, 0>>

\* Region lists: two first colours, each alone and followed by other
\* regions, and the first region under another label.
RegionLists ==
    { <<Region("wall", KEY_ID)>>,
      <<Region("door", KEY_ID)>>,
      <<Region("wall", KEY_ID), Region("trim", KEY_NAME)>>,
      <<Region("wall", KEY_ID), Region("trim", KEY_UNKNOWN), Region("door", KEY_NAME)>>,
      <<Region("wall", KEY_NAME)>>,
      <<Region("wall", KEY_NAME), Region("door", KEY_ID)>> }

\* Requests for either stored image, in either format.
RegionRequests ==
    { Request(image_id, regions, output_format) :
        image_id \in { <<"a", "a">>, <<"b", "b">> },
        regions \in RegionLists,
        output_format \in {JPG, PNG} }

\* Two images are stored: aa.png, white, and bb.jpg, black.
InitRegions ==
    /\ IMAGES_DIR =
         WriteFile(WriteFile(EmptyDir, <<"a", "a", ".", "p", "n", "g">>,
                             ImageData(WHITE)),
                   <<"b", "b", ".", "j", "p", "g">>, ImageData(BLACK))
    /\ RENDER_DIR = EmptyDir
    /\ JOBS = [j \in {} |-> Idle]
    /\ call = [w \in Workers |-> Idle]
    /\ uploading = {}
    /\ issued = { <<"a", "a">>, <<"b", "b">> }
    /\ submits = 0
    /\ returned = {}
    /\ response = NoResponse

\* Submissions only: the image store stays as it is.
NextRegions ==
    \/ \E w \in Workers, req \in RegionRequests :
         create_rendering_lookup(w, req, GoodHeader)
    \/ \E w \in Workers : create_rendering_tint(w)
    \/ \E w \in Workers : create_rendering_record(w)
    \/ \E w \in Workers : create_rendering_return(w)

SpecRegions == InitRegions /\ [][NextRegions]_vars

\* Two requests agree on image_id, output_format and the color_id of
\* their first region.
SameRender(r1, r2) ==
    /\ r1.image_id = r2.image_id
    /\ r1.output_format = r2.output_format
    /\ r1.regions[1].color_id = r2.regions[1].color_id

\* The content of the artifact of a recorded job.
Artifact(j) ==
    RENDER_DIR[SubSeq(JOBS[j].output_url, Len(FILES_RENDERINGS) + 1,
                      Len(JOBS[j].output_url))]

\* C14: two submissions that agree on image_id, output_format and the
\* color_id of the first region resolve the same colour and write the same
\* content, whatever their other regions and the label of the first.
C14_FirstRegionDecides ==
    /\ \A w1, w2 \in Workers :
         (Resolved(w1) /\ Resolved(w2) /\ SameRender(call[w1].req, call[w2].req))
            => call[w1].hex_color = call[w2].hex_color
    /\ \A j1, j2 \in DOMAIN JOBS :
         SameRender(JOBS[j1].config, JOBS[j2].config) => Artifact(j1) = Artifact(j2)

\* Two jobs are recorded whose requests agree on the image, the format and
\* the first colour and differ in the regions after the first.
C14_Witness ==
    \E j1, j2 \in DOMAIN JOBS :
        /\ j1 # j2
        /\ SameRender(JOBS[j1].config, JOBS[j2].config)
        /\ Len(JOBS[j1].config.regions) = 1
        /\ Len(JOBS[j2].config.regions) = 3
        /\ Artifact(j1) = Artifact(j2)

(***************************************************************************)
(* Uploads of files under many names, and submissions of them              *)
(***************************************************************************)

\* Client file names: an upper-case extension, none, a mixed-case one, two
\* extensions, a dot in the directory part only, a leading dot only, and a
\* trailing dot.
UploadNames ==
    { <<"p", ".", "P", "N", "G">>,
      <<"p">>,
      <<"s", ".", "J", "p", "E", "g">>,
      <<"x", ".", "t", "a", "r", ".", "G", "Z">>,
      <<"d", ".", "d", "/", "f">>,
      <<".", "r", "c">>,
      <<"p", ".">> }

\* Every name with a white raster, and one of them with bytes that are no
\* image.
UploadFiles ==
    { [filename |-> n, data |-> ImageData(WHITE)] : n \in UploadNames }
        \cup { [filename |-> <<"p">>, data |-> JunkData] }

\* Submissions of each identifier, with one region; one of them reaches
\* the render in a run.
UploadRequests ==
    { Request(image_id, <<Region("wall", KEY_ID)>>, JPG) : image_id \in UUIDS }

NextUpload ==
    \/ \E file \in UploadFiles : upload_image_open(file, GoodHeader)
    \/ \E u \in uploading : upload_image_write(u)
    \/ \E w \in Workers, req \in UploadRequests :
         /\ submits = 0
         /\ create_rendering_lookup(w, req, GoodHeader)
    \/ \E w \in Workers : create_rendering_tint(w)
    \/ \E w \in Workers : create_rendering_record(w)
    \/ \E w \in Workers : create_rendering_return(w)

SpecUpload == Init /\ [][NextUpload]_vars

\* The extension each of the names is to be stored with: its last
\* extension in lower case, ".jpg" when the base name has none.
ExpectedExt(name) ==
    CASE name = <<"p", ".", "P", "N", "G">> -> <<".", "p", "n", "g">>
      [] name = <<"p">> -> <<".", "j", "p", "g">>
      [] name = <<"s", ".", "J", "p", "E", "g">> -> <<".", "j", "p", "e", "g">>
      [] name = <<"x", ".", "t", "a", "r", ".", "G", "Z">> -> <<".", "g", "z">>
      [] name = <<"d", ".", "d", "/", "f">> -> <<".", "j", "p", "g">>
      [] name = <<".", "r", "c">> -> <<".", "j", "p", "g">>
      [] name = <<"p", ".">> -> <<".">>

\* An upload has returned the identifier: a stored name starts with it
\* and no upload of it is still under way.
UploadReturned(image_id) ==
    /\ image_id \in UUIDS
    /\ \E n \in DOMAIN IMAGES_DIR : StartsWith(n, image_id)
    /\ \A u \in uploading : u.id # image_id

\* C15: when an upload returns identifier I for a file named with
\* extension E, the store holds the file I followed by E in lower case
\* (".jpg" without an extension) and its URL names it; a stored image
\* stays stored and its content changes only when its own upload writes
\* it; and a submit of I with regions is not answered 404.
C15_UploadThenSubmit ==
    /\ []((response.op = "upload" /\ response.status = 200) =>
            LET name == response.body.id \o ExpectedExt(response.arg)
            IN  /\ name \in DOMAIN IMAGES_DIR
                /\ IMAGES_DIR[name].kind # "empty"
                /\ response.body.file_url = FILES_IMAGES \o name)
    /\ []((/\ response.op = "submit"
           /\ UploadReturned(response.arg.image_id)
           /\ response.arg.regions # <<>>) => response.status # 404)
    /\ [][\A n \in DOMAIN IMAGES_DIR :
            /\ n \in DOMAIN IMAGES_DIR'
            /\ IMAGES_DIR'[n] # IMAGES_DIR[n] =>
                 \E u \in uploading : u.filename = n /\ u \notin uploading']_vars

\* An upload of the name without extension has returned, its file is
\* stored as .jpg, and a job of another uploaded image is recorded.
C15_Witness ==
    /\ response.op = "upload"
    /\ response.status = 200
    /\ response.arg = <<"p">>
    /\ (response.body.id \o DEFAULT_EXT) \in DOMAIN IMAGES_DIR
    /\ \E j \in DOMAIN JOBS :
         /\ JOBS[j].config.image_id # response.body.id
         /\ UploadReturned(JOBS[j].config.image_id)

(***************************************************************************)
(* The tint, for every source and target value of a channel                *)
(***************************************************************************)

\* The values of an 8-bit channel.
Channel == 0..255

\* Two hex digits for a channel value.
HexByte(v) == <<HexDigits[(v \div 16) + 1], HexDigits[(v % 16) + 1]>>

\* The hex string of a colour.
HexOf(rgb) == <<"#">> \o HexByte(rgb[1]) \o HexByte(rgb[2]) \o HexByte(rgb[3])

\* A call of create_rendering that is about to run simple_tint on the
\* stored image aa.png with the given colour, writing ab.png.
TintCall(hex_color) ==
    [pc |-> "tint",
     req |-> Request(<<"a", "a">>, <<Region("wall", hex_color)>>, PNG),
     input_filename |-> <<"a", "a", ".", "p", "n", "g">>,
     hex_color |-> hex_color,
     job_id |-> <<"a", "b">>,
     output_filename |-> <<"a", "b", ".", "p", "n", "g">>]

\* A stored image of one colour and a target colour: between them the
\* three channels pair every source value with every target value.
InitTint ==
    \E c \in Channel, t \in Channel :
        /\ IMAGES_DIR = WriteFile(EmptyDir, <<"a", "a", ".", "p", "n", "g">>,
                                  ImageData(<<c, 255 - c, c>>))
        /\ RENDER_DIR = EmptyDir
        /\ JOBS = [j \in {} |-> Idle]
        /\ call = [w \in Workers |->
                     IF w = "w1" THEN TintCall(HexOf(<<t, t, 255 - t>>)) ELSE Idle]
        /\ uploading = {}
        /\ issued = { <<"a", "a">>, <<"a", "b">> }
        /\ submits = 1
        /\ returned = {}
        /\ response = NoResponse

NextTint == \E w \in Workers : create_rendering_tint(w)

SpecTint == InitTint /\ [][NextTint]_vars

\* v is 0.65 * c + 0.35 * t rounded to the nearest integer (either
\* neighbour when the value lies halfway).
IsRounded(v, c, t) ==
    LET exact100 == 65 * c + 35 * t
    IN  /\ 100 * v - exact100 <= 50
        /\ exact100 - 100 * v <= 50

\* C16: the artifact of a source of colour C tinted with target T has in
\* every channel the value round(0.65 * C + 0.35 * T), within 0..255.
C16_TintRounds ==
    \A w \in Workers :
        call[w].pc = "record" =>
            LET out == RENDER_DIR[call[w].output_filename].pixel
                base == IMAGES_DIR[call[w].input_filename].pixel
                target == hex_to_rgb(call[w].hex_color).rgb
            IN  \A i \in 1..3 :
                    /\ out[i] \in Channel
                    /\ IsRounded(out[i], base[i], target[i])

(***************************************************************************)
(* hex_to_rgb, for many strings                                            *)
(***************************************************************************)

\* The characters int(..., 16) reads as hex digits.
HexChars ==
    { HexDigits[i] : i \in DOMAIN HexDigits } \cup {"A", "B", "C", "D", "E", "F"}

\* The longest of the strings built from HexAlphabet.
MaxHexLen == 7

HexAlphabet == {"#", "f", "1", "g"}

\* Channel values written as two digits.
HexPairs ==
    { <<"0", "0">>, <<"f", "f">>, <<"7", "F">>, <<"a", "0">>, <<"0", "A">>,
      <<"9", "c">> }

\* Strings given to hex_to_rgb: every three-digit string, six-digit
\* strings, each with and without "#"; every string of a four-character
\* alphabet up to MaxHexLen; and strings with blanks, plus signs, a
\* radix prefix and underscores.
HexInputs ==
    LET three == { <<x, y, z>> : x, y, z \in HexChars }
        six == { x \o y \o z : x, y, z \in HexPairs }
    IN  three \cup six \cup { <<"#">> \o h : h \in three \cup six }
        \cup UNION { [1..n -> HexAlphabet] : n \in 0..MaxHexLen }
        \cup { <<" ", "f", " ", "f", " ", "f">>,
               <<"+", "1", "+", "2", "+", "3">>,
               <<"0", "x", "0", "x", "0", "x">>,
               <<"f", "_", "f", "_", "f", "_">> }

\* A call about to run simple_tint with one of the strings, on a stored
\* white image.
InitHex ==
    \E h \in HexInputs :
        /\ IMAGES_DIR = WriteFile(EmptyDir, <<"a", "a", ".", "p", "n", "g">>,
                                  ImageData(WHITE))
        /\ RENDER_DIR = EmptyDir
        /\ JOBS = [j \in {} |-> Idle]
        /\ call = [w \in Workers |-> IF w = "w1" THEN TintCall(h) ELSE Idle]
        /\ uploading = {}
        /\ issued = { <<"a", "a">>, <<"a", "b">> }
        /\ submits = 1
        /\ returned = {}
        /\ response = NoResponse

SpecHex == InitHex /\ [][NextTint]_vars

\* The string without one leading "#".
WithoutHash(h) == IF h # <<>> /\ Head(h) = "#" THEN Tail(h) ELSE h

\* After stripping a leading "#", three or six hex digits.
ValidHex(h) ==
    /\ Len(WithoutHash(h)) \in {3, 6}
    /\ \A i \in DOMAIN WithoutHash(h) : WithoutHash(h)[i] \in HexChars

\* The channels a valid string stands for: 17 * d for each of three
\* digits, 16 * d1 + d2 for each of three pairs.
ExpectedRgb(h) ==
    LET s == WithoutHash(h)
    IN  IF Len(s) = 3
        THEN [i \in 1..3 |-> 17 * HexValue(s[i])]
        ELSE [i \in 1..3 |-> 16 * HexValue(s[2 * i - 1]) + HexValue(s[2 * i])]

\* C17: hex_to_rgb returns the channels of every valid three- or
\* six-digit string, with or without a leading "#", and fails for every
\* other string; so simple_tint writes an artifact only for valid strings
\* and ends the request with an error for the others.
C17_HexParse ==
    /\ \A w \in Workers :
         call[w].pc = "record" =>
            LET h == call[w].hex_color
            IN  /\ ValidHex(h)
                /\ hex_to_rgb(h).rgb = ExpectedRgb(h)
                /\ RENDER_DIR[call[w].output_filename].pixel =
                     Blend(WHITE, ExpectedRgb(h))
    /\ (response.op = "submit" /\ response.status = 500)
         => ~ValidHex(response.arg.regions[1].color_id)

(***************************************************************************)
(* The order of the writes, and what each operation leaves alone           *)
(***************************************************************************)

\* C18: in every state, also while other submissions are under way, the
\* artifact of every job of the index is stored in the rendering
\* directory under the name its output_url ends with.
C18_PersistBeforeRecord ==
    \A j \in DOMAIN JOBS :
        /\ ArtifactStored(JOBS[j].output_url)
        /\ Artifact(j).kind = "image"

\* A job is recorded, not yet returned, while the other worker has
\* written its artifact and not yet recorded its job.
C18_Witness ==
    \E w1, w2 \in Workers :
        /\ call[w1].pc = "return"
        /\ call[w1].job_id \in DOMAIN JOBS
        /\ call[w2].pc = "record"
        /\ call[w2].job_id \notin DOMAIN JOBS
        /\ call[w2].output_filename \in DOMAIN RENDER_DIR

\* dir2 is dir1 with the one new file name added, the others as they were.
AddsOne(dir1, dir2, name) ==
    /\ name \notin DOMAIN dir1
    /\ DOMAIN dir2 = DOMAIN dir1 \cup {name}
    /\ \A n \in DOMAIN dir1 : dir2[n] = dir1[n]

\* C19: no step of a submit touches the image directory; a submit that
\* ends with 404, 400 or 500 leaves the rendering directory and the index
\* as they were; a submit that succeeds adds one artifact (its tint) and
\* then one job (its record) and nothing else; an upload touches neither
\* the rendering directory nor the index.
C19_Frame ==
    [][/\ (call' # call \/ response'.op = "submit") => IMAGES_DIR' = IMAGES_DIR
       /\ (response'.op = "submit" /\ response'.status \in {400, 404, 500})
            => (RENDER_DIR' = RENDER_DIR /\ JOBS' = JOBS)
       /\ \A w \in Workers :
            /\ (call[w].pc = "idle" /\ call'[w].pc = "tint")
                 => (RENDER_DIR' = RENDER_DIR /\ JOBS' = JOBS)
            /\ (call[w].pc = "tint" /\ call'[w].pc = "record")
                 => (/\ AddsOne(RENDER_DIR, RENDER_DIR', call[w].output_filename)
                     /\ JOBS' = JOBS)
            /\ (call[w].pc = "record" /\ call'[w].pc = "return")
                 => (/\ AddsOne(JOBS, JOBS', call[w].job_id)
                     /\ RENDER_DIR' = RENDER_DIR)
            /\ (call[w].pc = "return" /\ call'[w].pc = "idle")
                 => (RENDER_DIR' = RENDER_DIR /\ JOBS' = JOBS)
       /\ (uploading' # uploading \/ response'.op = "upload")
            => (RENDER_DIR' = RENDER_DIR /\ JOBS' = JOBS /\ call' = call)]_vars

\* Two submits of the one stored image have succeeded, and a third submit
\* has just been answered 404: one image, two artifacts, two jobs.
C19_Witness ==
    /\ response.op = "submit"
    /\ response.status = 404
    /\ Cardinality(DOMAIN IMAGES_DIR) = 1
    /\ Cardinality(DOMAIN RENDER_DIR) = 2
    /\ Cardinality(DOMAIN JOBS) = 2

=============================================================================
